---- MODULE Spec2Model ----
(***************************************************************************)
(* Model of the notification polling engine of Print-Notifications:        *)
(*   src/src/core/notification_service.py  NotificationManager             *)
(*   src/src/services/github_service.py    the provider's translation      *)
(*   src/main.py                           the polling driver              *)
(* A notification is modelled by the two fields the manager reads: id and  *)
(* source.  An id is a small number, a provider is a small number with a   *)
(* service name.                                                           *)
(***************************************************************************)
EXTENDS Integers, Sequences, FiniteSets, TLC

\* ---------------------------------------------------------------- bounds
NumProviders == 2      \* provider instances that exist
NumIds == 2            \* distinct notification ids a remote source can hold
MaxLen == 2            \* longest list one provider fetch returns
MaxServices == 2       \* longest registry (add_service calls that succeed)
MaxMark == 1           \* longest hand-written argument of a mark call

\* time.sleep(60): the polling period
SleepSeconds == 60

Providers == 1..NumProviders
Ids == 1..NumIds

VARIABLES
    configured,          \* provider -> token present (GitHubNotificationService.token)
    services,            \* NotificationManager.services
    seen_notifications,  \* NotificationManager.seen_notifications
    fetched,             \* what each registered service's get_notifications did in the last aggregate call
    result,              \* the list the last aggregate call returned
    status,              \* "returned" or "raised": how the last call ended
    lastOp,              \* the manager method called last
    marked,              \* argument of the last call, when it was a mark call
    seenAtCall,          \* seen_notifications when the last call began
    before,              \* what preceded the last get_new call
    invoked,             \* providers whose get_notifications was ever called
    rejected,            \* providers add_service refused
    pc,                  \* poll_notifications: where the driver stands
    preexisting,         \* notifications the remote sources held at the initial check
    batch,               \* the list the printer was acquired for last
    failed,              \* notifications of the batches whose print returned False
    unhanded,            \* notifications the last loop fetch committed to seen-state, until they are handed to the printer
    handoffs,            \* times the printer was acquired since the last fetch
    waited,              \* seconds slept since the last fetch
    waitedAtFetch,       \* the value of waited when the last loop fetch began
    fetchNo,             \* "none", "first" or "later": which loop fetch ran last
    numFetchAll,         \* print_all_notifications: get_all_notifications calls made
    reason,              \* _get_notification_type: its argument
    ntype,               \* _get_notification_type: the value it returned
    returnedPairs,       \* notifications get_new_notifications returned so far (fixed registry)
    twice                \* a notification was returned by get_new_notifications a second time

apiVars == <<fetched, status, lastOp, marked, seenAtCall, before, invoked, rejected>>

driverVars == <<pc, preexisting, batch, failed, unhanded, handoffs, waited,
                waitedAtFetch, fetchNo, numFetchAll>>

typeVars == <<reason, ntype>>

fixedVars == <<returnedPairs, twice>>

vars == <<configured, services, seen_notifications, result, apiVars, driverVars,
          typeVars, fixedVars>>

\* ------------------------------------------------------------ providers
\* service_name property of a provider instance
ServiceName(p) ==
    IF p = 1 THEN "GitHub" ELSE IF p = 2 THEN "Slack" ELSE "Email"

\* is_configured(): the token is present and not blank
AlwaysConfigured(p) == TRUE

is_configured(p) == configured[p]

\* One Notification as the manager sees it.
Notification(i, src) == [id |-> i, source |-> src]

\* _convert_github_notification: source is the converting service's name
\* A mis-keyed translation: every provider stamps the first provider's name.
ConvertWrongSource(p, raw) ==
    [k \in 1..Len(raw) |-> Notification(raw[k], ServiceName(1))]

Convert(p, raw) ==
    [k \in 1..Len(raw) |-> Notification(raw[k], ServiceName(p))]

RECURSIVE SeqsUpTo(_, _)
SeqsUpTo(S, n) ==
    IF n = 0 THEN {<<>>}
    ELSE LET shorter == SeqsUpTo(S, n - 1)
         IN  shorter \cup {Append(s, x) : s \in {t \in shorter : Len(t) = n - 1}, x \in S}

IdSeqs == SeqsUpTo(Ids, MaxLen)

\* What one call of get_notifications can do: return a list ("ok"), return
\* None after a request error ("none"), raise an Exception ("raise"), or be
\* cut short by KeyboardInterrupt ("interrupt").
Outcome(kind, ids) == [kind |-> kind, ids |-> ids]

FaultOutcomes == {Outcome("none", <<>>), Outcome("raise", <<>>)}

Outcomes == FaultOutcomes \cup {Outcome("ok", s) : s \in IdSeqs}

\* The value notifications = service.get_notifications() when it returns.
Returned(p, o) == IF o.kind = "ok" THEN Convert(p, o.ids) ELSE <<>>

\* except Exception: catches every Exception; KeyboardInterrupt is a
\* BaseException and leaves the method.
EscapesAll(o) == o.kind \in {"raise", "interrupt"}

Escapes(o) == o.kind = "interrupt"

\* ------------------------------------------------------ NotificationManager
EmptySeen == [n \in {} |-> {}]

\* add_service: self.seen_notifications[service.service_name] = set()
AddedSeen(seen, name) ==
    [n \in DOMAIN seen \cup {name} |-> IF n = name THEN {} ELSE seen[n]]

\* add_service as a whole: the registry and the seen-state it leaves
add_service(svcs, seen, p) ==
    IF is_configured(p)
    THEN [services |-> Append(svcs, p), seen |-> AddedSeen(seen, ServiceName(p))]
    ELSE [services |-> svcs, seen |-> seen]

\* A loop that puts each service's notifications in front of the list
RECURSIVE GetAllLoopPrepends(_, _, _, _)
GetAllLoopPrepends(svcs, outs, i, all_notifications) ==
    IF i > Len(svcs) THEN [status |-> "returned", list |-> all_notifications]
    ELSE IF Escapes(outs[i]) THEN [status |-> "raised", list |-> <<>>]
    ELSE GetAllLoopPrepends(svcs, outs, i + 1,
                            Returned(svcs[i], outs[i]) \o all_notifications)

\* get_all_notifications: the loop over self.services, from position i on
RECURSIVE GetAllLoop(_, _, _, _)
GetAllLoop(svcs, outs, i, all_notifications) ==
    IF i > Len(svcs) THEN [status |-> "returned", list |-> all_notifications]
    ELSE IF Escapes(outs[i]) THEN [status |-> "raised", list |-> <<>>]
    ELSE GetAllLoop(svcs, outs, i + 1,
                    all_notifications \o Returned(svcs[i], outs[i]))

get_all_notifications(svcs, outs) == GetAllLoop(svcs, outs, 1, <<>>)

\* get_new_notifications: the test of line 116
IsNewGlobal(seen, name, n) == \A m \in DOMAIN seen : n.id \notin seen[m]

IsNewAlways(seen, name, n) == TRUE

IsNew(seen, name, n) == n.id \notin seen[name]

\* get_new_notifications: the inner loop over one service's notifications
RECURSIVE FilterLoopNoAdd(_, _, _, _, _)
FilterLoopNoAdd(name, notifications, k, seen, new_notifications) ==
    IF k > Len(notifications) THEN [seen |-> seen, list |-> new_notifications]
    ELSE IF IsNew(seen, name, notifications[k])
         THEN FilterLoopNoAdd(name, notifications, k + 1, seen,
                              Append(new_notifications, notifications[k]))
         ELSE FilterLoopNoAdd(name, notifications, k + 1, seen, new_notifications)

RECURSIVE FilterLoop(_, _, _, _, _)
FilterLoop(name, notifications, k, seen, new_notifications) ==
    IF k > Len(notifications) THEN [seen |-> seen, list |-> new_notifications]
    ELSE IF IsNew(seen, name, notifications[k])
         THEN FilterLoop(name, notifications, k + 1,
                         [seen EXCEPT ![name] = @ \cup {notifications[k].id}],
                         Append(new_notifications, notifications[k]))
         ELSE FilterLoop(name, notifications, k + 1, seen, new_notifications)

\* get_new_notifications: the loop over self.services, from position i on
RECURSIVE GetNewLoop(_, _, _, _, _)
GetNewLoop(svcs, outs, i, seen, new_notifications) ==
    IF i > Len(svcs)
    THEN [status |-> "returned", seen |-> seen, list |-> new_notifications]
    ELSE IF Escapes(outs[i])
    THEN [status |-> "raised", seen |-> seen, list |-> <<>>]
    ELSE LET f == FilterLoop(ServiceName(svcs[i]), Returned(svcs[i], outs[i]),
                             1, seen, new_notifications)
         IN  GetNewLoop(svcs, outs, i + 1, f.seen, f.list)

get_new_notifications(svcs, outs, seen) == GetNewLoop(svcs, outs, 1, seen, <<>>)

\* A mark that files an id under its source whether or not the key exists
MarkOneAnyKey(seen, n) ==
    [name \in DOMAIN seen \cup {n.source} |->
        IF n.source = name
        THEN (IF name \in DOMAIN seen THEN seen[name] ELSE {}) \cup {n.id}
        ELSE seen[name]]

\* mark_notifications_as_seen: the inner loop over the seen-sets, one notification
MarkOne(seen, n) ==
    [name \in DOMAIN seen |->
        IF n.source = name THEN seen[name] \cup {n.id} ELSE seen[name]]

RECURSIVE MarkLoop(_, _, _)
MarkLoop(seen, notifications, k) ==
    IF k > Len(notifications) THEN seen
    ELSE MarkLoop(MarkOne(seen, notifications[k]), notifications, k + 1)

\* A mark that replaces each seen-set by the ids it is given
mark_replaces_seen(seen, notifications) ==
    [name \in DOMAIN seen |->
        {notifications[k].id : k \in {j \in 1..Len(notifications) :
                                          notifications[j].source = name}}]

mark_notifications_as_seen(seen, notifications) == MarkLoop(seen, notifications, 1)

\* ------------------------------------------------- calls on one manager
Sources == {ServiceName(p) : p \in Providers} \cup {"Unknown"}

MarkArgs == SeqsUpTo({Notification(i, s) : i \in Ids, s \in Sources}, MaxMark)

OutcomeLists(svcs) == [1..Len(svcs) -> Outcomes]

Range(f) == {f[k] : k \in DOMAIN f}

ManagerInit ==
    /\ configured \in [Providers -> BOOLEAN]
    /\ services = <<>>
    /\ seen_notifications = EmptySeen
    /\ fetched = <<>>
    /\ result = <<>>
    /\ status = "returned"
    /\ lastOp = "new_manager"
    /\ marked = <<>>
    /\ seenAtCall = EmptySeen
    /\ before = "other"
    /\ invoked = {}
    /\ rejected = {}
    /\ preexisting = {}
    /\ batch = <<>>
    /\ failed = {}
    /\ unhanded = {}
    /\ handoffs = 0
    /\ waited = 0
    /\ waitedAtFetch = 0
    /\ fetchNo = "none"
    /\ numFetchAll = 0
    /\ reason = <<>>
    /\ ntype = <<>>
    /\ returnedPairs = {}
    /\ twice = FALSE

Init ==
    /\ ManagerInit
    /\ pc = "caller"

\* manager.add_service(p)
AddService(p) ==
    /\ Len(services) < MaxServices
    /\ LET m == add_service(services, seen_notifications, p)
       IN  /\ services' = m.services
           /\ seen_notifications' = m.seen
    /\ rejected' = IF is_configured(p) THEN rejected ELSE rejected \cup {p}
    /\ seenAtCall' = seen_notifications
    /\ lastOp' = "add_service"
    /\ status' = "returned"
    /\ fetched' = <<>>
    /\ result' = <<>>
    /\ marked' = <<>>
    /\ before' = "other"
    /\ UNCHANGED <<configured, invoked, driverVars, typeVars, fixedVars>>

\* manager.get_all_notifications(), with a slip: the items are marked seen
GetAllMarksSeen ==
    \E outs \in OutcomeLists(services) :
        LET r == get_all_notifications(services, outs)
        IN  /\ fetched' = outs
            /\ result' = r.list
            /\ status' = r.status
            /\ seenAtCall' = seen_notifications
            /\ seen_notifications' = mark_notifications_as_seen(seen_notifications, r.list)
            /\ invoked' = invoked \cup Range(services)
            /\ lastOp' = "get_all"
            /\ marked' = <<>>
            /\ before' = "other"
            /\ UNCHANGED <<configured, services, rejected, driverVars, typeVars, fixedVars>>

\* manager.get_all_notifications()
GetAll ==
    \E outs \in OutcomeLists(services) :
        LET r == get_all_notifications(services, outs)
        IN  /\ fetched' = outs
            /\ result' = r.list
            /\ status' = r.status
            /\ seenAtCall' = seen_notifications
            /\ invoked' = invoked \cup Range(services)
            /\ lastOp' = "get_all"
            /\ marked' = <<>>
            /\ before' = "other"
            /\ UNCHANGED <<configured, services, seen_notifications, rejected, driverVars, typeVars, fixedVars>>

\* A get_new_notifications that keeps its commits only when no fetch failed
GetNewAllOrNothing ==
    \E outs \in OutcomeLists(services) :
        LET r == get_new_notifications(services, outs, seen_notifications)
        IN  /\ fetched' = outs
            /\ result' = r.list
            /\ status' = r.status
            /\ seen_notifications' =
                   IF \E i \in DOMAIN outs : outs[i].kind # "ok"
                   THEN seen_notifications ELSE r.seen
            /\ seenAtCall' = seen_notifications
            /\ invoked' = invoked \cup Range(services)
            /\ lastOp' = "get_new"
            /\ marked' = <<>>
            /\ before' = IF lastOp = "mark_seen" THEN "mark_seen"
                          ELSE IF lastOp = "get_new" /\ outs = fetched THEN "same_get_new"
                          ELSE "other"
            /\ UNCHANGED <<configured, services, rejected, driverVars, typeVars, fixedVars>>

\* manager.get_new_notifications()
GetNew ==
    \E outs \in OutcomeLists(services) :
        LET r == get_new_notifications(services, outs, seen_notifications)
        IN  /\ fetched' = outs
            /\ result' = r.list
            /\ status' = r.status
            /\ seen_notifications' = r.seen
            /\ seenAtCall' = seen_notifications
            /\ invoked' = invoked \cup Range(services)
            /\ lastOp' = "get_new"
            /\ marked' = <<>>
            /\ before' = IF lastOp = "mark_seen" THEN "mark_seen"
                          ELSE IF lastOp = "get_new" /\ outs = fetched THEN "same_get_new"
                          ELSE "other"
            /\ UNCHANGED <<configured, services, rejected, driverVars, typeVars, fixedVars>>

\* manager.mark_notifications_as_seen(L): L is the list the last aggregate
\* call returned, or a short list written by the caller
MarkSeen ==
    \E L \in {result} \cup MarkArgs :
        /\ seen_notifications' = mark_notifications_as_seen(seen_notifications, L)
        /\ seenAtCall' = seen_notifications
        /\ marked' = L
        /\ lastOp' = "mark_seen"
        /\ status' = "returned"
        /\ fetched' = <<>>
        /\ result' = <<>>
        /\ before' = "other"
        /\ UNCHANGED <<configured, services, invoked, rejected, driverVars, typeVars, fixedVars>>

Next ==
    \/ \E p \in Providers : AddService(p)
    \/ GetAll
    \/ GetNew
    \/ MarkSeen

Spec == Init /\ [][Next]_vars

\* ------------------------------------------------ main.py: the driver
\* setup_notification_manager: add_service for every provider, in order
RECURSIVE SetupLoop(_, _, _)
SetupLoop(p, svcs, seen) ==
    IF p > NumProviders THEN [services |-> svcs, seen |-> seen]
    ELSE LET m == add_service(svcs, seen, p)
         IN  SetupLoop(p + 1, m.services, m.seen)

setup_notification_manager == SetupLoop(1, <<>>, EmptySeen)

\* What a fetch inside the loop of poll_notifications can do: the outcomes of
\* a call on the manager, or KeyboardInterrupt arriving during the request.
LoopOutcomes == Outcomes \cup {Outcome("interrupt", <<>>)}

\* The kind of the first outcome that leaves the manager's method, "none"
\* when the method returns.
FirstEscape(outs) ==
    LET I == {i \in DOMAIN outs : Escapes(outs[i])}
    IN  IF I = {} THEN "none"
        ELSE outs[CHOOSE i \in I : \A j \in I : i <= j].kind

\* NetumPrinter (src/printers/netum_printer.py): entering the context leaves
\* is_connected true or false, and its print calls raise no fault.
NetumPrinterConnected == BOOLEAN

\* print_notifications_to_printer: the value it returns
print_notifications_to_printer(notifications, is_connected) ==
    IF notifications = <<>> THEN TRUE ELSE is_connected

\* print_notifications_to_printer: whether it reaches "with NetumPrinter()"
AcquiresPrinter(notifications) == notifications # <<>>

\* The notifications whose ids a call added to the seen-state
Committed(seenBefore, seenAfter) ==
    {Notification(x, n) : x \in Ids, n \in DOMAIN seenBefore} \cap
    {m \in [id : Ids, source : DOMAIN seenBefore] :
         m.id \in seenAfter[m.source] \ seenBefore[m.source]}

PollInit ==
    /\ ManagerInit
    /\ pc = "setup"

\* manager = setup_notification_manager(); if not manager.services: return
PollSetup ==
    /\ pc = "setup"
    /\ LET m == setup_notification_manager
       IN  /\ services' = m.services
           /\ seen_notifications' = m.seen
           /\ pc' = IF m.services = <<>> THEN "exit" ELSE "initial"
    /\ UNCHANGED <<configured, result, apiVars, typeVars, fixedVars, preexisting,
                   batch, failed, unhanded, handoffs, waited, waitedAtFetch,
                   fetchNo, numFetchAll>>

\* The initial check: get_all_notifications, then mark_notifications_as_seen
\* when the list is not empty.  up[i] is what the remote source of service i
\* holds at that moment; a service that fails does not return it.
PollInitialCheck ==
    /\ pc = "initial"
    /\ \E up \in [1..Len(services) -> IdSeqs] :
       \E kinds \in [1..Len(services) -> {"ok", "none", "raise"}] :
           LET outs == [i \in 1..Len(services) |->
                           Outcome(kinds[i], IF kinds[i] = "ok" THEN up[i] ELSE <<>>)]
               initial_notifications == get_all_notifications(services, outs).list
           IN  /\ preexisting' = UNION {Range(Convert(services[i], up[i])) :
                                           i \in 1..Len(services)}
               /\ seen_notifications' =
                      IF initial_notifications # <<>>
                      THEN mark_notifications_as_seen(seen_notifications,
                                                      initial_notifications)
                      ELSE seen_notifications
    /\ pc' = "fetching"
    /\ waited' = 0
    /\ UNCHANGED <<configured, services, result, apiVars, typeVars, fixedVars,
                   batch, failed, unhanded, handoffs, waitedAtFetch, fetchNo,
                   numFetchAll>>

\* A loop that prints whatever get_new_notifications returned, empty or not
PollFetchAlwaysPrints ==
    /\ pc = "fetching"
    /\ \E outs \in [1..Len(services) -> LoopOutcomes] :
           LET r == get_new_notifications(services, outs, seen_notifications)
           IN  /\ seen_notifications' = r.seen
               /\ result' = r.list
               /\ unhanded' = Committed(seen_notifications, r.seen)
               /\ pc' = IF r.status = "raised"
                        THEN IF FirstEscape(outs) = "interrupt" THEN "stopped"
                             ELSE "crashed"
                        ELSE "delivering"
    /\ handoffs' = 0
    /\ waitedAtFetch' = waited
    /\ waited' = 0
    /\ fetchNo' = IF fetchNo = "none" THEN "first" ELSE "later"
    /\ UNCHANGED <<configured, services, apiVars, typeVars, fixedVars, preexisting,
                   batch, failed, numFetchAll>>

\* new_notifications = manager.get_new_notifications(), inside try; an
\* exception that leaves it is caught when it is KeyboardInterrupt
PollFetch ==
    /\ pc = "fetching"
    /\ \E outs \in [1..Len(services) -> LoopOutcomes] :
           LET r == get_new_notifications(services, outs, seen_notifications)
           IN  /\ seen_notifications' = r.seen
               /\ result' = r.list
               /\ unhanded' = Committed(seen_notifications, r.seen)
               /\ pc' = IF r.status = "raised"
                        THEN IF FirstEscape(outs) = "interrupt" THEN "stopped"
                             ELSE "crashed"
                        ELSE IF r.list # <<>> THEN "delivering"
                        ELSE "waiting"
    /\ handoffs' = 0
    /\ waitedAtFetch' = waited
    /\ waited' = 0
    /\ fetchNo' = IF fetchNo = "none" THEN "first" ELSE "later"
    /\ UNCHANGED <<configured, services, apiVars, typeVars, fixedVars, preexisting,
                   batch, failed, numFetchAll>>

\* A driver that ends when a print fails
PollDeliverEndsOnFailure ==
    /\ pc = "delivering"
    /\ \E is_connected \in NetumPrinterConnected :
           LET success == print_notifications_to_printer(result, is_connected)
           IN  /\ batch' = result
               /\ handoffs' = handoffs + 1
               /\ failed' = IF success THEN failed ELSE failed \cup Range(result)
               /\ pc' = IF success THEN "waiting" ELSE "crashed"
    /\ unhanded' = {}
    /\ UNCHANGED <<configured, services, seen_notifications, result, apiVars,
                   typeVars, fixedVars, preexisting, waited, waitedAtFetch,
                   fetchNo, numFetchAll>>

\* A driver that gives the ids of a batch back when its print fails
PollDeliverRollback ==
    /\ pc = "delivering"
    /\ \E is_connected \in NetumPrinterConnected :
           /\ batch' = result
           /\ failed' = IF print_notifications_to_printer(result, is_connected)
                        THEN failed ELSE failed \cup Range(result)
           /\ seen_notifications' =
                  IF ~print_notifications_to_printer(result, is_connected)
                  THEN [n \in DOMAIN seen_notifications |->
                           seen_notifications[n] \
                               {result[k].id : k \in {j \in 1..Len(result) :
                                                          result[j].source = n}}]
                  ELSE seen_notifications
    /\ pc' = "waiting"
    /\ unhanded' = {}
    /\ handoffs' = handoffs + 1
    /\ UNCHANGED <<configured, services, result, apiVars, typeVars, fixedVars,
                   preexisting, waited, waitedAtFetch, fetchNo, numFetchAll>>

\* success = print_notifications_to_printer(new_notifications)
PollDeliver ==
    /\ pc = "delivering"
    /\ \E is_connected \in NetumPrinterConnected :
           LET success == print_notifications_to_printer(result, is_connected)
           IN  /\ batch' = IF AcquiresPrinter(result) THEN result ELSE batch
               /\ handoffs' = IF AcquiresPrinter(result) THEN handoffs + 1
                              ELSE handoffs
               /\ failed' = IF success THEN failed ELSE failed \cup Range(result)
    /\ pc' = "waiting"
    /\ unhanded' = {}
    /\ UNCHANGED <<configured, services, seen_notifications, result, apiVars,
                   typeVars, fixedVars, preexisting, waited, waitedAtFetch,
                   fetchNo, numFetchAll>>

\* A loop whose sleep returns at once
PollWaitNoSleep ==
    /\ pc = "waiting"
    /\ pc' = "fetching"
    /\ UNCHANGED <<configured, services, seen_notifications, result, apiVars,
                   typeVars, fixedVars, preexisting, batch, failed, unhanded,
                   handoffs, waited, waitedAtFetch, fetchNo, numFetchAll>>

\* time.sleep(60)
PollWait ==
    /\ pc = "waiting"
    /\ pc' = "fetching"
    /\ waited' = waited + SleepSeconds
    /\ UNCHANGED <<configured, services, seen_notifications, result, apiVars,
                   typeVars, fixedVars, preexisting, batch, failed, unhanded,
                   handoffs, waitedAtFetch, fetchNo, numFetchAll>>

\* KeyboardInterrupt: caught inside the try block, not caught before it
PollInterrupt ==
    /\ pc \in {"initial", "fetching", "delivering", "waiting"}
    /\ pc' = IF pc = "initial" THEN "killed" ELSE "stopped"
    /\ UNCHANGED <<configured, services, seen_notifications, result, apiVars,
                   typeVars, fixedVars, preexisting, batch, failed, unhanded,
                   handoffs, waited, waitedAtFetch, fetchNo, numFetchAll>>

\* A step of the driver that is not a cancellation
PollStep ==
    \/ PollSetup
    \/ PollInitialCheck
    \/ PollFetch
    \/ PollDeliver
    \/ PollWait

PollNext ==
    \/ PollStep
    \/ PollInterrupt

SpecPoll == PollInit /\ [][PollNext]_vars

\* ------------------------------------------------ main.py: one-shot mode
OneShotInit ==
    /\ ManagerInit
    /\ pc = "one_setup"

\* manager = setup_notification_manager(); if not manager.services: return
OneShotSetup ==
    /\ pc = "one_setup"
    /\ LET m == setup_notification_manager
       IN  /\ services' = m.services
           /\ seen_notifications' = m.seen
           /\ pc' = IF m.services = <<>> THEN "done" ELSE "one_fetch"
    /\ UNCHANGED <<configured, result, apiVars, typeVars, fixedVars, preexisting,
                   batch, failed, unhanded, handoffs, waited, waitedAtFetch,
                   fetchNo, numFetchAll>>

\* A one-shot pass that marks what it fetched
OneShotFetchMarks ==
    /\ pc = "one_fetch"
    /\ \E outs \in OutcomeLists(services) :
           LET notifications == get_all_notifications(services, outs).list
           IN  /\ result' = notifications
               /\ seen_notifications' =
                      mark_notifications_as_seen(seen_notifications, notifications)
               /\ pc' = IF notifications = <<>> THEN "done" ELSE "one_print"
    /\ numFetchAll' = numFetchAll + 1
    /\ UNCHANGED <<configured, services, apiVars, typeVars,
                   fixedVars, preexisting, batch, failed, unhanded, handoffs,
                   waited, waitedAtFetch, fetchNo>>

\* notifications = manager.get_all_notifications(); if not notifications: return
OneShotFetch ==
    /\ pc = "one_fetch"
    /\ \E outs \in OutcomeLists(services) :
           LET notifications == get_all_notifications(services, outs).list
           IN  /\ result' = notifications
               /\ pc' = IF notifications = <<>> THEN "done" ELSE "one_print"
    /\ numFetchAll' = numFetchAll + 1
    /\ UNCHANGED <<configured, services, seen_notifications, apiVars, typeVars,
                   fixedVars, preexisting, batch, failed, unhanded, handoffs,
                   waited, waitedAtFetch, fetchNo>>

\* success = print_notifications_to_printer(notifications)
OneShotPrint ==
    /\ pc = "one_print"
    /\ \E is_connected \in NetumPrinterConnected :
           LET success == print_notifications_to_printer(result, is_connected)
           IN  /\ batch' = IF AcquiresPrinter(result) THEN result ELSE batch
               /\ handoffs' = IF AcquiresPrinter(result) THEN handoffs + 1
                              ELSE handoffs
               /\ failed' = IF success THEN failed ELSE failed \cup Range(result)
    /\ pc' = "done"
    /\ UNCHANGED <<configured, services, seen_notifications, result, apiVars,
                   typeVars, fixedVars, preexisting, unhanded, waited,
                   waitedAtFetch, fetchNo, numFetchAll>>

OneShotNext ==
    \/ OneShotSetup
    \/ OneShotFetch
    \/ OneShotPrint

\* The process runs its statements one after another until it returns.
SpecOneShot == OneShotInit /\ [][OneShotNext]_vars /\ WF_vars(OneShotNext)

\* Either mode of the driver
SpecModes == (PollInit \/ OneShotInit) /\ [][PollNext \/ OneShotNext]_vars

\* ------------------------------------------------ calls on a manager whose registry is fixed
\* The manager is set up once, as setup_notification_manager does; afterwards
\* only the aggregate calls and mark are made on it.
FixedInit ==
    /\ ManagerInit
    /\ pc = "fixed_setup"

FixedSetup ==
    /\ pc = "fixed_setup"
    /\ LET m == setup_notification_manager
       IN  /\ services' = m.services
           /\ seen_notifications' = m.seen
    /\ pc' = "fixed_calls"
    /\ UNCHANGED <<configured, result, apiVars, typeVars, fixedVars, preexisting,
                   batch, failed, unhanded, handoffs, waited, waitedAtFetch,
                   fetchNo, numFetchAll>>

\* manager.get_all_notifications()
FixedGetAll ==
    /\ pc = "fixed_calls"
    /\ \E outs \in OutcomeLists(services) :
           result' = get_all_notifications(services, outs).list
    /\ lastOp' = "get_all"
    /\ UNCHANGED <<configured, services, seen_notifications, fetched, status,
                   marked, seenAtCall, before, invoked, rejected, driverVars,
                   typeVars, fixedVars>>

\* manager.get_new_notifications()
FixedGetNew ==
    /\ pc = "fixed_calls"
    /\ \E outs \in OutcomeLists(services) :
           LET r == get_new_notifications(services, outs, seen_notifications)
           IN  /\ seen_notifications' = r.seen
               /\ result' = r.list
               /\ returnedPairs' = returnedPairs \cup Range(r.list)
               /\ twice' = \/ twice
                           \/ Range(r.list) \cap returnedPairs # {}
                           \/ \E j, k \in 1..Len(r.list) : j # k /\ r.list[j] = r.list[k]
    /\ lastOp' = "get_new"
    /\ UNCHANGED <<configured, services, fetched, status, marked, seenAtCall,
                   before, invoked, rejected, driverVars, typeVars>>

\* manager.mark_notifications_as_seen(L)
FixedMarkSeen ==
    /\ pc = "fixed_calls"
    /\ \E L \in {result} \cup MarkArgs :
           seen_notifications' = mark_notifications_as_seen(seen_notifications, L)
    /\ result' = <<>>
    /\ lastOp' = "mark_seen"
    /\ UNCHANGED <<configured, services, fetched, status, marked, seenAtCall,
                   before, invoked, rejected, driverVars, typeVars, fixedVars>>

FixedNext ==
    \/ FixedSetup
    \/ FixedGetAll
    \/ FixedGetNew
    \/ FixedMarkSeen

SpecFixed == FixedInit /\ [][FixedNext]_vars

\* ------------------------------------------------ github_service.py: the type of a notification
\* A Python str is the sequence of its characters.
LowerLetters == <<"a", "b", "c", "d", "e", "f", "g", "h", "i", "j", "k", "l", "m", "n", "o", "p", "q", "r", "s", "t", "u", "v", "w", "x", "y", "z">>

UpperLetters == <<"A", "B", "C", "D", "E", "F", "G", "H", "I", "J", "K", "L", "M", "N", "O", "P", "Q", "R", "S", "T", "U", "V", "W", "X", "Y", "Z">>

IsLower(c) == \E i \in DOMAIN LowerLetters : LowerLetters[i] = c

IsUpper(c) == \E i \in DOMAIN UpperLetters : UpperLetters[i] = c

IsCased(c) == IsLower(c) \/ IsUpper(c)

LetterIndex(c) ==
    CHOOSE i \in DOMAIN LowerLetters : LowerLetters[i] = c \/ UpperLetters[i] = c

lower_char(c) == IF IsUpper(c) THEN LowerLetters[LetterIndex(c)] ELSE c

upper_char(c) == IF IsLower(c) THEN UpperLetters[LetterIndex(c)] ELSE c

\* str.lower()
str_lower(s) == [i \in 1..Len(s) |-> lower_char(s[i])]

\* A title() that also turns underscores into spaces
str_title_words(s) ==
    [i \in 1..Len(s) |->
        IF s[i] = "_" THEN " "
        ELSE IF ~IsCased(s[i]) THEN s[i]
        ELSE IF i > 1 /\ IsCased(s[i - 1]) THEN lower_char(s[i])
        ELSE upper_char(s[i])]

\* str.title(): a cased character is upper-cased when the character before it
\* is not cased (or there is none) and lower-cased otherwise; the other
\* characters stay
str_title(s) ==
    [i \in 1..Len(s) |->
        IF ~IsCased(s[i]) THEN s[i]
        ELSE IF i > 1 /\ IsCased(s[i - 1]) THEN lower_char(s[i])
        ELSE upper_char(s[i])]

type_mapping ==
    <<"a", "s", "s", "i", "g", "n">> :> <<"A", "s", "s", "i", "g", "n", "m", "e", "n", "t">> @@
    <<"a", "u", "t", "h", "o", "r">> :> <<"A", "u", "t", "h", "o", "r">> @@
    <<"c", "o", "m", "m", "e", "n", "t">> :> <<"C", "o", "m", "m", "e", "n", "t">> @@
    <<"i", "n", "v", "i", "t", "a", "t", "i", "o", "n">> :> <<"I", "n", "v", "i", "t", "a", "t", "i", "o", "n">> @@
    <<"m", "a", "n", "u", "a", "l">> :> <<"M", "a", "n", "u", "a", "l">> @@
    <<"m", "e", "n", "t", "i", "o", "n">> :> <<"M", "e", "n", "t", "i", "o", "n">> @@
    <<"r", "e", "v", "i", "e", "w", "_", "r", "e", "q", "u", "e", "s", "t", "e", "d">> :> <<"R", "e", "v", "i", "e", "w", " ", "R", "e", "q", "u", "e", "s", "t">> @@
    <<"s", "e", "c", "u", "r", "i", "t", "y", "_", "a", "l", "e", "r", "t">> :> <<"S", "e", "c", "u", "r", "i", "t", "y", " ", "A", "l", "e", "r", "t">> @@
    <<"s", "t", "a", "t", "e", "_", "c", "h", "a", "n", "g", "e">> :> <<"S", "t", "a", "t", "e", " ", "C", "h", "a", "n", "g", "e">> @@
    <<"s", "u", "b", "s", "c", "r", "i", "b", "e", "d">> :> <<"S", "u", "b", "s", "c", "r", "i", "p", "t", "i", "o", "n">> @@
    <<"t", "e", "a", "m", "_", "m", "e", "n", "t", "i", "o", "n">> :> <<"T", "e", "a", "m", " ", "M", "e", "n", "t", "i", "o", "n">>

\* type_mapping.get(reason.lower(), reason.title())
_get_notification_type(r) ==
    IF str_lower(r) \in DOMAIN type_mapping THEN type_mapping[str_lower(r)]
    ELSE str_title(r)

\* The reasons the function is applied to: the mapped reasons in three
\* spellings, reasons the table does not hold, and every short string over a
\* small alphabet.
MaxReasonLen == 3

ReasonAlphabet == {"a", "B", "_", " ", "s"}

CustomReason == <<"c", "u", "s", "t", "o", "m", "_", "r", "e", "a", "s", "o", "n">>

OtherReasons ==
    {CustomReason, <<"u", "n", "k", "n", "o", "w", "n">>, <<"c", "i", "_", "a", "c", "t", "i", "v", "i", "t", "y">>, <<"C", "U", "S", "T", "O", "M", "_", "R", "E", "A", "S", "O", "N">>, <<"a", "p", "p", "r", "o", "v", "a", "l", " ", "r", "e", "q", "u", "e", "s", "t", "e", "d">>}

ReasonInputs ==
    DOMAIN type_mapping
    \cup {[i \in 1..Len(k) |-> upper_char(k[i])] : k \in DOMAIN type_mapping}
    \cup {[i \in 1..Len(k) |-> IF i = 1 THEN upper_char(k[i]) ELSE k[i]] :
             k \in DOMAIN type_mapping}
    \cup OtherReasons
    \cup SeqsUpTo(ReasonAlphabet, MaxReasonLen)

TypeInit ==
    /\ ManagerInit
    /\ pc = "type"

\* notification_type = self._get_notification_type(reason)
TypeCall ==
    /\ pc = "type"
    /\ \E r \in ReasonInputs :
           /\ reason' = r
           /\ ntype' = _get_notification_type(r)
    /\ UNCHANGED <<configured, services, seen_notifications, result, apiVars,
                   driverVars, fixedVars>>

TypeNext == TypeCall

SpecType == TypeInit /\ [][TypeNext]_vars

\* ------------------------------------------------ properties of the manager
Positions == 1..Len(services)

NameAt(i) == ServiceName(services[i])

IdsOf(ids) == {ids[k] : k \in 1..Len(ids)}

\* ids the services registered under a name returned in the last aggregate call
FetchedIds(name) ==
    UNION {IdsOf(fetched[i].ids) : i \in {j \in Positions : NameAt(j) = name}}

\* ids the last aggregate call returned with a given source
ResultIds(name) ==
    {result[k].id : k \in {j \in 1..Len(result) : result[j].source = name}}

Faulted(i) == fetched[i].kind # "ok"

\* C1: a get_new call returns, for every provider name, exactly the fetched
\* ids that were not in that name's seen-set when the call began, and nothing
\* with another source.
C1_NewIsFetchedMinusSeen ==
    lastOp = "get_new" =>
        /\ status = "returned"
        /\ \A name \in DOMAIN seen_notifications :
               ResultIds(name) = FetchedIds(name) \ seenAtCall[name]
        /\ \A k \in 1..Len(result) : result[k].source \in DOMAIN seen_notifications

\* C1 witness: the seen-set held {1}, the provider now returns <<1, 2>>, and
\* the call returned exactly the notification with id 2.
C1_Witness ==
    /\ lastOp = "get_new"
    /\ services = <<1>>
    /\ seenAtCall[ServiceName(1)] = {1}
    /\ fetched = <<Outcome("ok", <<1, 2>>)>>
    /\ result = <<Notification(2, ServiceName(1))>>

\* C2: a get_new call that directly follows a get_new call in which every
\* service did the same (same lists, same faults) returns no item.
C2_SecondCallEmpty ==
    (lastOp = "get_new" /\ before = "same_get_new") => result = <<>>

\* C2 witness: the repeated call fetched a non-empty list and returned nothing.
C2_Witness ==
    /\ lastOp = "get_new"
    /\ before = "same_get_new"
    /\ \E i \in Positions : fetched[i].kind = "ok" /\ fetched[i].ids # <<>>
    /\ result = <<>>

\* C3: when get_new directly follows mark_notifications_as_seen(L), no
\* notification of a service whose fetched list lies within L is returned.
C3_MarkedNotReturned ==
    [][(lastOp = "mark_seen" /\ lastOp' = "get_new") =>
        \A i \in Positions :
            LET got == Returned(services[i], fetched'[i])
            IN  (Range(got) \subseteq Range(marked)) =>
                    Range(got) \cap Range(result') = {}]_vars

\* C3 witness: right after a mark call, a service returned a non-empty list of
\* marked ids and get_new returned nothing.
C3_Witness ==
    /\ lastOp = "get_new"
    /\ before = "mark_seen"
    /\ \E i \in Positions :
           /\ fetched[i].kind = "ok"
           /\ fetched[i].ids # <<>>
           /\ IdsOf(fetched[i].ids) \subseteq seenAtCall[NameAt(i)]
    /\ result = <<>>

\* Two registry positions with different names whose fetches share an id
Colliding(i, j, x) ==
    /\ NameAt(i) # NameAt(j)
    /\ fetched[i].kind = "ok" /\ fetched[j].kind = "ok"
    /\ x \in IdsOf(fetched[i].ids) \cap IdsOf(fetched[j].ids)

\* C5: dedup is per provider name.  With the same id fetched by two services
\* of different names, get_all returns both notifications; get_new returns
\* the one of a name exactly when that name had not seen the id, whatever the
\* other name had seen, and afterwards both seen-sets hold the id; a mark
\* call changes the seen-set of a name only by the ids marked with that source.
C5_PartitionedByProvider ==
    /\ lastOp = "get_all" =>
           \A i, j \in Positions : \A x \in Ids :
               Colliding(i, j, x) =>
                   /\ Notification(x, NameAt(i)) \in Range(result)
                   /\ Notification(x, NameAt(j)) \in Range(result)
    /\ lastOp = "get_new" =>
           \A i, j \in Positions : \A x \in Ids :
               Colliding(i, j, x) =>
                   /\ (Notification(x, NameAt(i)) \in Range(result))
                          <=> (x \notin seenAtCall[NameAt(i)])
                   /\ x \in seen_notifications[NameAt(i)]
                   /\ x \in seen_notifications[NameAt(j)]
    /\ lastOp = "mark_seen" =>
           \A name \in DOMAIN seen_notifications :
               seen_notifications[name] = seenAtCall[name] \cup
                   {marked[k].id : k \in {j \in 1..Len(marked) : marked[j].source = name}}

\* C5 witness: id 1 fetched from both services, already seen for the second
\* name only, and get_new returned exactly the first service's notification.
C5_Witness ==
    /\ lastOp = "get_new"
    /\ services = <<1, 2>>
    /\ Colliding(1, 2, 1)
    /\ 1 \notin seenAtCall[ServiceName(1)]
    /\ 1 \in seenAtCall[ServiceName(2)]
    /\ result = <<Notification(1, ServiceName(1))>>

\* C6: when a service's fetch fails in get_all or get_new, the call returns;
\* a name all of whose services failed contributes nothing and keeps its
\* seen-set; every service that did not fail contributes all its items
\* (get_all) or all its items that were not seen (get_new).
C6_FaultIsolation ==
    (lastOp \in {"get_all", "get_new"} /\ \E i \in Positions : Faulted(i)) =>
        /\ status = "returned"
        /\ \A i \in Positions :
               (\A j \in Positions : NameAt(j) = NameAt(i) => Faulted(j)) =>
                   /\ ResultIds(NameAt(i)) = {}
                   /\ seen_notifications[NameAt(i)] = seenAtCall[NameAt(i)]
        /\ \A i \in Positions : \A x \in IdsOf(fetched[i].ids) :
               (lastOp = "get_all" \/ x \notin seenAtCall[NameAt(i)]) =>
                   Notification(x, NameAt(i)) \in Range(result)
        /\ lastOp = "get_all" =>
               Len(result) = Cardinality({<<i, k>> \in Positions \X (1..MaxLen) :
                                              k <= Len(fetched[i].ids)})

\* C6 witness: the first service raised, the second returned items, and they
\* are in the result.
C6_Witness ==
    /\ lastOp \in {"get_all", "get_new"}
    /\ services = <<1, 2>>
    /\ fetched[1].kind = "raise"
    /\ fetched[2].kind = "ok"
    /\ result # <<>>

\* C6 witness, the failing service last
C6_WitnessAfter ==
    /\ lastOp = "get_new"
    /\ services = <<1, 2>>
    /\ fetched[2].kind = "raise"
    /\ fetched[1].kind = "ok"
    /\ result # <<>>

\* C7: a provider that is not configured is in no registry position, has no
\* seen-set, was never fetched from and is the source of no returned item.
C7_UnconfiguredExcluded ==
    \A p \in Providers :
        ~configured[p] =>
            /\ p \notin Range(services)
            /\ ServiceName(p) \notin DOMAIN seen_notifications
            /\ p \notin invoked
            /\ ResultIds(ServiceName(p)) = {}

\* C7 witness: add_service refused a provider, and a later aggregate call
\* returned items of another one.
C7_Witness ==
    /\ rejected # {}
    /\ lastOp = "get_all"
    /\ result # <<>>

\* C8: the seen-set of every name after a call contains the seen-set the name
\* had when the call began.
C8_SeenNeverShrinks ==
    \A name \in DOMAIN seenAtCall :
        /\ name \in DOMAIN seen_notifications
        /\ seenAtCall[name] \subseteq seen_notifications[name]

\* C9: a get_all call changes neither the seen-state nor the registry.
C9_GetAllFrame ==
    [][lastOp' = "get_all" =>
        /\ seen_notifications' = seen_notifications
        /\ services' = services]_vars

\* C9 witness: get_all returned an item whose id is not in the seen-set of
\* its source.
C9_Witness ==
    /\ lastOp = "get_all"
    /\ \E k \in 1..Len(result) :
           result[k].id \notin seen_notifications[result[k].source]

\* ------------------------------------------------- properties of the driver
\* C4: no notification that a remote source held at the initial check is in
\* a list handed to the printer.
C4_PreexistingNeverPrinted ==
    Range(batch) \cap preexisting = {}

\* C10: the ids of a batch whose print failed stay in the seen-state, no
\* notification of such a batch is in the list a later get_new returned for
\* printing, and the driver is still in its loop or was stopped by the user.
C10_FailedBatchNotRedelivered ==
    /\ \A n \in failed :
           /\ n.source \in DOMAIN seen_notifications
           /\ n.id \in seen_notifications[n.source]
    /\ pc = "delivering" => Range(result) \cap failed = {}
    /\ failed # {} => pc \in {"fetching", "delivering", "waiting", "stopped"}

\* C10 witness: after a failed print, a later cycle found new notifications.
C10_Witness ==
    /\ failed # {}
    /\ pc = "delivering"
    /\ result # <<>>

\* ------------------------------------------------ properties of the two modes

\* C11: cancellation acts only at the loop boundary: the driver never stops
\* with ids in seen-state that the last fetch committed and that were not
\* handed to the printer, and a signal during the initial check also ends in
\* the clean stop (never in an uncaught KeyboardInterrupt).
C11_CancelOnlyAtBoundary ==
    /\ pc = "stopped" => unhanded = {}
    /\ pc # "killed"

\* C12: the continuous driver terminates only on cancellation: a driver that
\* has ended was cancelled, and one that was not has a next step.
C12_StopsOnlyOnCancel ==
    /\ pc \in {"exit", "crashed", "stopped", "killed"} => pc \in {"stopped", "killed"}
    /\ pc \notin {"exit", "crashed", "stopped", "killed"} => ENABLED PollStep

\* C12 (amended): the continuous driver terminates only on cancellation or
\* because no provider is configured at start-up; with a configured provider
\* and no cancellation it always has a next step, whatever the providers and
\* the printer do.
C12_StopsOnCancelOrNoProvider ==
    /\ pc \in {"exit", "crashed"} =>
           pc = "exit" /\ services = <<>> /\ \A p \in Providers : ~configured[p]
    /\ pc \notin {"exit", "crashed", "stopped", "killed"} => ENABLED PollStep
    /\ (\E p \in Providers : configured[p]) => pc # "exit"

C12_Witness ==
    /\ pc = "waiting"
    /\ failed # {}
    /\ result = <<>>
    /\ fetchNo = "later"

\* C13: the one-shot pass ends after exactly one get_all_notifications call.
C13_ExactlyOneFetchAll == pc = "done" => numFetchAll = 1

\* C13 (amended): the one-shot pass ends in every execution, after exactly one
\* get_all_notifications call when a provider is configured and none
\* otherwise, with at most one hand-off to the printer, and its seen-sets
\* stay empty throughout.
C13_OneShotTerminates ==
    /\ <>[](pc = "done")
    /\ [](pc = "done" => numFetchAll = (IF services = <<>> THEN 0 ELSE 1))
    /\ [](numFetchAll <= 1 /\ handoffs <= 1)
    /\ [](\A name \in DOMAIN seen_notifications : seen_notifications[name] = {})

C13_Witness ==
    /\ pc = "done"
    /\ numFetchAll = 1
    /\ handoffs = 1
    /\ failed # {}
    /\ Len(services) = 2

\* ------------------------------------------------ properties of the type of a notification
SameLetter(c, d) ==
    \/ c = d
    \/ \E i \in DOMAIN LowerLetters : {c, d} = {LowerLetters[i], UpperLetters[i]}

\* reason is the key k in some spelling of upper and lower case
Spells(r, k) == Len(r) = Len(k) /\ \A i \in 1..Len(k) : SameLetter(r[i], k[i])

\* C14: a mapped reason, in any case, gets its table value, and the unmapped
\* reason "custom_reason" gets the type "Custom Reason".
C14_CustomReasonWithSpace ==
    /\ \A k \in DOMAIN type_mapping : Spells(reason, k) => ntype = type_mapping[k]
    /\ reason = CustomReason => ntype = <<"C", "u", "s", "t", "o", "m", " ", "R", "e", "a", "s", "o", "n">>

\* C14 (amended): a mapped reason, in any case, gets its table value; an
\* unmapped reason gets itself with every letter that starts a run of letters
\* in upper case and every other letter in lower case, all other characters
\* (the underscore included) kept: "custom_reason" gets "Custom_Reason".
C14_TypeOfReason ==
    /\ \A k \in DOMAIN type_mapping : Spells(reason, k) => ntype = type_mapping[k]
    /\ (~\E k \in DOMAIN type_mapping : Spells(reason, k)) =>
           /\ Len(ntype) = Len(reason)
           /\ \A i \in 1..Len(reason) :
                  /\ SameLetter(ntype[i], reason[i])
                  /\ IsCased(reason[i]) =>
                         (IsUpper(ntype[i]) <=> (i = 1 \/ ~IsCased(reason[i - 1])))
    /\ reason = CustomReason => ntype = <<"C", "u", "s", "t", "o", "m", "_", "R", "e", "a", "s", "o", "n">>

C14_Witness ==
    /\ reason = CustomReason
    /\ ntype = <<"C", "u", "s", "t", "o", "m", "_", "R", "e", "a", "s", "o", "n">>

\* C15: every loop fetch, the first one included, starts after a completed
\* sleep of 60 seconds since the fetch before it.
C15_EveryFetchAfterSleep == fetchNo # "none" => waitedAtFetch = SleepSeconds

\* C15 (amended): every loop fetch but the first starts after a completed
\* sleep of 60 seconds since the fetch before it; the first one follows the
\* initial check with no sleep in between.
C15_LaterFetchAfterSleep ==
    /\ fetchNo = "later" => waitedAtFetch = SleepSeconds
    /\ fetchNo = "first" => waitedAtFetch = 0
    /\ pc = "fetching" => waited = (IF fetchNo = "none" THEN 0 ELSE SleepSeconds)

C15_Witness ==
    /\ fetchNo = "later"
    /\ waitedAtFetch = SleepSeconds
    /\ pc = "delivering"

\* C16: the printer gets a batch exactly when the fetch result is not empty.
\* In the loop a non-empty result is handed over once and whole before the
\* sleep, and an empty one leads straight to the sleep; in neither mode is the
\* printer acquired for an empty batch.
C16_BatchIffNonEmpty ==
    /\ pc \in {"delivering", "one_print"} => result # <<>> /\ handoffs = 0
    /\ pc = "waiting" =>
           IF result # <<>> THEN handoffs = 1 /\ batch = result /\ unhanded = {}
           ELSE handoffs = 0
    /\ pc = "done" =>
           IF result # <<>> THEN handoffs = 1 /\ batch = result
           ELSE handoffs = 0
    /\ handoffs > 0 => batch # <<>>
    /\ handoffs <= 1

C16_Witness ==
    /\ pc = "waiting"
    /\ handoffs = 1
    /\ Len(batch) = 2
    /\ batch = result

C16_WitnessEmpty ==
    /\ pc = "waiting"
    /\ fetchNo = "later"
    /\ result = <<>>
    /\ handoffs = 0

C16_WitnessOneShot ==
    /\ pc = "done"
    /\ handoffs = 1
    /\ batch = result

\* ------------------------------------------------ more properties of the manager
\* The number of notifications the services before position i returned
RECURSIVE Offset(_)
Offset(i) == IF i <= 1 THEN 0 ELSE Offset(i - 1) + Len(fetched[i - 1].ids)

\* What the services returned, laid end to end in registration order
Flat ==
    [n \in 1..Offset(Len(services) + 1) |->
        LET i == CHOOSE j \in Positions :
                     Offset(j) < n /\ n <= Offset(j) + Len(fetched[j].ids)
        IN  [id |-> fetched[i].ids[n - Offset(i)], source |-> NameAt(i)]]

RECURSIVE IsSubseq(_, _)
IsSubseq(a, b) ==
    IF a = <<>> THEN TRUE
    ELSE IF b = <<>> THEN FALSE
    ELSE IF Head(a) = Head(b) THEN IsSubseq(Tail(a), Tail(b))
    ELSE IsSubseq(a, Tail(b))

\* C17: get_all_notifications returns what the services that did not fail
\* returned, laid end to end in registration order, each list in its own
\* order and with its duplicates; get_new_notifications returns a subsequence
\* of that, in the same order.
C17_ConcatenationInOrder ==
    /\ lastOp = "get_all" => result = Flat
    /\ lastOp = "get_new" => IsSubseq(result, Flat)

C17_Witness ==
    /\ lastOp = "get_all"
    /\ services = <<2, 1>>
    /\ fetched = <<Outcome("ok", <<2, 2>>), Outcome("ok", <<2, 1>>)>>
    /\ Len(result) = 4

C17_WitnessNew ==
    /\ lastOp = "get_new"
    /\ services = <<2, 1>>
    /\ fetched = <<Outcome("ok", <<2, 1>>), Outcome("ok", <<2, 1>>)>>
    /\ result = <<Notification(1, ServiceName(2)), Notification(2, ServiceName(1))>>

\* C18: mark_notifications_as_seen adds each id to the seen-set whose key is
\* the notification's source and changes nothing else: an unmatched source
\* changes nothing and is no error, no key is created, the registry stays, and
\* the keys are at all times the names of the registered services.
C18_MarkSeenFrame ==
    /\ [](DOMAIN seen_notifications = {ServiceName(services[i]) : i \in Positions})
    /\ [][lastOp' = "mark_seen" =>
            /\ status' = "returned"
            /\ services' = services
            /\ configured' = configured
            /\ DOMAIN seen_notifications' = DOMAIN seen_notifications
            /\ \A name \in DOMAIN seen_notifications :
                   seen_notifications'[name] =
                       seen_notifications[name] \cup
                           {marked'[k].id : k \in {j \in 1..Len(marked') :
                                                       marked'[j].source = name}}]_vars

C18_Witness ==
    /\ lastOp = "mark_seen"
    /\ Len(marked) = 2
    /\ seen_notifications # seenAtCall

C18_WitnessUnmatched ==
    /\ lastOp = "mark_seen"
    /\ marked # <<>>
    /\ marked[1].source \notin DOMAIN seen_notifications
    /\ services # <<>>
    /\ seen_notifications = seenAtCall

\* C19: with a fixed registry of distinct names, no notification (name, id)
\* is returned by get_new_notifications a second time, whatever calls,
\* upstream contents and faults come in between, and every id it returns is
\* in the seen-set of its source when the call returns.
C19_AtMostOnce ==
    /\ ~twice
    /\ lastOp = "get_new" =>
           \A k \in 1..Len(result) :
               /\ result[k].source \in DOMAIN seen_notifications
               /\ result[k].id \in seen_notifications[result[k].source]
    /\ \A n \in returnedPairs : n.id \in seen_notifications[n.source]

C19_Witness ==
    /\ lastOp = "get_new"
    /\ Len(services) = 2
    /\ Cardinality(returnedPairs) = 4
    /\ result # <<>>

\* C20: in get_new_notifications a service whose fetch fails leaves the
\* seen-set of its name as the other services' results make it (unchanged
\* when no service of that name succeeds), while the new items of the
\* services that succeed are committed and returned, also when the fault
\* comes after them.
C20_FaultKeepsCommits ==
    (lastOp = "get_new" /\ \E i \in Positions : fetched[i].kind # "ok") =>
        /\ \A name \in DOMAIN seen_notifications :
               seen_notifications[name] =
                   seenAtCall[name] \cup
                       UNION {IdsOf(fetched[j].ids) :
                                  j \in {i \in Positions : NameAt(i) = name
                                                           /\ fetched[i].kind = "ok"}}
        /\ \A i \in Positions :
               fetched[i].kind = "ok" =>
                   \A x \in IdsOf(fetched[i].ids) \ seenAtCall[NameAt(i)] :
                       \E k \in 1..Len(result) :
                           result[k] = [id |-> x, source |-> NameAt(i)]

C20_Witness ==
    /\ lastOp = "get_new"
    /\ services = <<1, 2>>
    /\ fetched[1] = Outcome("ok", <<1, 2>>)
    /\ fetched[2].kind = "raise"
    /\ seenAtCall = [n \in DOMAIN seenAtCall |-> IF n = ServiceName(2) THEN {1} ELSE {}]
    /\ seen_notifications[ServiceName(1)] = {1, 2}
    /\ seen_notifications[ServiceName(2)] = {1}
    /\ Len(result) = 2

====
